---- MODULE Spec2Model ----
(***************************************************************************)
(* Model of cmd/corimSign.go: the "corim sign" command of cocli.            *)
(*                                                                         *)
(* State: the afero filesystem `fs`, the six package-level flag pointers,  *)
(* the flag storage of every command built by NewCorimSignCmd, and the     *)
(* position and locals of the one RunE / sign() execution in progress      *)
(* (the program is single-threaded: a handler runs to completion before    *)
(* another command is built or executed).                                  *)
(***************************************************************************)
EXTENDS Naturals, Sequences, FiniteSets, TLC

(* ------------------------------------------------------------------ *)
(* Bounds                                                              *)
(* ------------------------------------------------------------------ *)

\* commands built by NewCorimSignCmd (the package-level one included)
MaxCmds == 2

\* executions (RunE or direct sign() calls) in one behaviour
MaxRuns == 2

(* ------------------------------------------------------------------ *)
(* File contents                                                       *)
(* ------------------------------------------------------------------ *)

NoFile == [kind |-> "nofile"]
NoBytes == [kind |-> "nil"]
Junk == [kind |-> "junk"]
Partial == [kind |-> "partial"]

CorimBytes(v) == [kind |-> "corim", valid |-> v]
MetaBytes(v) == [kind |-> "meta", valid |-> v]
JWKBytes(a) == [kind |-> "jwk", accepts |-> a]
DERBytes(cs) == [kind |-> "der", certs |-> cs]

BasePaths ==
  {"c.cbor", "bad.cbor", "junk", "m.json", "badm.json", "k.jwk", "k2.jwk",
   "leaf.der", "chain.der", "nofile", "out.cbor"}

Paths == BasePaths \cup {"signed-" \o p : p \in BasePaths} \cup {""}

InitFS ==
  [p \in Paths |->
     CASE p = "c.cbor" -> CorimBytes(TRUE)
       [] p = "bad.cbor" -> CorimBytes(FALSE)
       [] p = "junk" -> Junk
       [] p = "m.json" -> MetaBytes(TRUE)
       [] p = "badm.json" -> MetaBytes(FALSE)
       [] p = "k.jwk" -> JWKBytes(TRUE)
       [] p = "k2.jwk" -> JWKBytes(FALSE)
       [] p = "leaf.der" -> DERBytes(<<"L">>)
       [] p = "chain.der" -> DERBytes(<<"I1", "I2">>)
       [] OTHER -> NoFile]

(* ------------------------------------------------------------------ *)
(* Pointers to strings                                                 *)
(* ------------------------------------------------------------------ *)

Flags == {"file", "meta", "key", "output", "cert", "intermediates"}

Nil == <<"nil">>
FlagPtr(c, f) == <<"flag", c, f>>
Lit(s) == <<"lit", s>>

VARIABLES
  fs,
  ncmds,
  flags,
  corimSignCorimFile,
  corimSignKeyFile,
  corimSignOutputFile,
  corimSignMetaFile,
  corimSignCertFile,
  corimSignIntermediateCerts,
  pc,
  self,
  a,
  l,
  ret,
  printed,
  calls,
  fs0,
  nruns

globals ==
  <<corimSignCorimFile, corimSignKeyFile, corimSignOutputFile,
    corimSignMetaFile, corimSignCertFile, corimSignIntermediateCerts>>

vars ==
  <<fs, ncmds, flags, globals, pc, self, a, l, ret, printed, calls, fs0, nruns>>

\* *p for a non-nil pointer p
Deref(p) == IF p[1] = "lit" THEN p[2] ELSE flags[p[2]][p[3]]

\* p == nil || *p == ""
NilOrEmpty(p) == p = Nil \/ Deref(p) = ""

(* ------------------------------------------------------------------ *)
(* The collaborators sign() calls                                      *)
(* ------------------------------------------------------------------ *)

\* afero.ReadFile(fs, path)
ReadFile(path) ==
  [ok |-> fs[path] # NoFile,
   data |-> IF fs[path] # NoFile THEN fs[path] ELSE NoBytes]

\* c.FromCBOR(bytes): the decoded UnsignedCorim
FromCBOR(b) ==
  [ok |-> b.kind = "corim",
   val |-> [type |-> "UnsignedCorim", valid |-> b.kind = "corim" /\ b.valid]]

\* m.FromJSON(bytes): the decoded Meta
FromJSON(b) ==
  [ok |-> b.kind = "meta",
   val |-> [type |-> "Meta", valid |-> b.kind = "meta" /\ b.valid]]

\* c.Valid(), m.Valid()
Valid(x) == x.valid

\* corim.NewSignerFromJWK(bytes)
NewSignerFromJWK(b) ==
  [ok |-> b.kind = "jwk",
   val |-> [type |-> "Signer", accepts |-> b.kind = "jwk" /\ b.accepts]]

\* s.AddSigningCert(der): exactly one DER certificate
AddSigningCert(s, der) ==
  IF der.kind = "der" /\ Len(der.certs) = 1
  THEN [ok |-> TRUE, val |-> [s EXCEPT !.SigningCert = der.certs]]
  ELSE [ok |-> FALSE, val |-> s]

\* s.AddIntermediateCerts(der): one or more concatenated DER certificates
AddIntermediateCerts(s, der) ==
  IF der.kind = "der" /\ Len(der.certs) >= 1 /\ s.SigningCert # <<>>
  THEN [ok |-> TRUE, val |-> [s EXCEPT !.IntermediateCerts = der.certs]]
  ELSE [ok |-> FALSE, val |-> s]

\* s.Sign(signer): the COSE Sign1 envelope
SignedCorimSign(s, signer) ==
  [ok |-> signer.accepts,
   val |-> [kind |-> "cose",
            payload |-> CorimBytes(s.UnsignedCorim.valid),
            meta |-> MetaBytes(s.Meta.valid),
            x5chain |-> IF s.SigningCert = <<>> THEN <<>>
                        ELSE s.SigningCert \o s.IntermediateCerts]]

\* what afero.WriteFile(fs, path, data, 0644) can leave behind: the data
\* (success), the old content (the open failed) or a truncated file (the
\* open with O_TRUNC succeeded and the write or close failed)
WriteOutcomes == {"ok", "openfail", "shortwrite"}

WriteFile(path, data, outcome) ==
  CASE outcome = "ok" -> [ok |-> TRUE, fs |-> [fs EXCEPT ![path] = data]]
    [] outcome = "openfail" -> [ok |-> FALSE, fs |-> fs]
    [] OTHER -> [ok |-> FALSE, fs |-> [fs EXCEPT ![path] = Partial]]

(* ------------------------------------------------------------------ *)
(* Zero values                                                         *)
(* ------------------------------------------------------------------ *)

NoFlags == [f \in Flags |-> ""]

ZeroCorim == [type |-> "UnsignedCorim", valid |-> FALSE]
ZeroMeta == [type |-> "Meta", valid |-> FALSE]
ZeroSigner == [type |-> "Signer", accepts |-> FALSE]

ZeroSignedCorim ==
  [UnsignedCorim |-> ZeroCorim, Meta |-> ZeroMeta,
   SigningCert |-> <<>>, IntermediateCerts |-> <<>>]

ZeroArgs ==
  [unsignedCorimFile |-> "", keyFile |-> "", metaFile |-> "",
   outputFile |-> Nil, certFile |-> Nil, intermediatesFile |-> Nil]

ZeroLocals ==
  [unsignedCorimCBOR |-> NoBytes, signedCorimCBOR |-> NoBytes,
   metaJSON |-> NoBytes, keyJWK |-> NoBytes, certDER |-> NoBytes,
   intermediatesDER |-> NoBytes, signedCorimFile |-> "",
   c |-> ZeroCorim, m |-> ZeroMeta, signer |-> ZeroSigner,
   s |-> ZeroSignedCorim]

NoRet == [file |-> "", err |-> "pending"]

(* ------------------------------------------------------------------ *)
(* Initial state: the package's variables are initialised, which runs  *)
(* corimSignCmd = NewCorimSignCmd() once                               *)
(* ------------------------------------------------------------------ *)

Init ==
  /\ fs = InitFS
  /\ ncmds = 1
  /\ flags = <<NoFlags>>
  /\ corimSignCorimFile = FlagPtr(1, "file")
  /\ corimSignMetaFile = FlagPtr(1, "meta")
  /\ corimSignKeyFile = FlagPtr(1, "key")
  /\ corimSignOutputFile = FlagPtr(1, "output")
  /\ corimSignCertFile = FlagPtr(1, "cert")
  /\ corimSignIntermediateCerts = FlagPtr(1, "intermediates")
  /\ pc = "idle"
  /\ self = 0
  /\ a = ZeroArgs
  /\ l = ZeroLocals
  /\ ret = NoRet
  /\ printed = <<>>
  /\ calls = <<>>
  /\ fs0 = InitFS
  /\ nruns = 0

\* NewCorimSignCmd(): a new command with its own flag storage; the
\* package-level pointers are set to that storage
NewCorimSignCmd ==
  /\ pc = "idle"
  /\ ncmds < MaxCmds
  /\ ncmds' = ncmds + 1
  /\ flags' = Append(flags, NoFlags)
  /\ corimSignCorimFile' = FlagPtr(ncmds + 1, "file")
  /\ corimSignMetaFile' = FlagPtr(ncmds + 1, "meta")
  /\ corimSignKeyFile' = FlagPtr(ncmds + 1, "key")
  /\ corimSignOutputFile' = FlagPtr(ncmds + 1, "output")
  /\ corimSignCertFile' = FlagPtr(ncmds + 1, "cert")
  /\ corimSignIntermediateCerts' = FlagPtr(ncmds + 1, "intermediates")
  /\ UNCHANGED <<fs, pc, self, a, l, ret, printed, calls, fs0, nruns>>

(* ------------------------------------------------------------------ *)
(* Command lines and direct calls                                      *)
(* ------------------------------------------------------------------ *)

Base == ("file" :> "c.cbor") @@ ("key" :> "k.jwk") @@ ("meta" :> "m.json")

\* the flags given on a command line (f @@ g: f wins where both are defined)
ArgVectors ==
  { [f \in {} |-> ""],
    Base,
    ("file" :> "c.cbor") @@ ("key" :> "k.jwk"),
    ("file" :> "c.cbor") @@ ("meta" :> "m.json"),
    ("key" :> "k.jwk") @@ ("meta" :> "m.json"),
    ("output" :> "out.cbor") @@ Base,
    ("cert" :> "leaf.der") @@ Base,
    ("cert" :> "leaf.der") @@ ("intermediates" :> "chain.der") @@ Base,
    ("intermediates" :> "chain.der") @@ Base,
    ("intermediates" :> "nofile") @@ Base,
    ("file" :> "bad.cbor") @@ Base,
    ("file" :> "junk") @@ Base,
    ("file" :> "nofile") @@ Base,
    ("meta" :> "badm.json") @@ Base,
    ("meta" :> "junk") @@ Base,
    ("meta" :> "nofile") @@ Base,
    ("key" :> "junk") @@ Base,
    ("key" :> "nofile") @@ Base,
    ("key" :> "k2.jwk") @@ Base,
    ("cert" :> "junk") @@ Base,
    ("cert" :> "nofile") @@ Base,
    ("cert" :> "chain.der") @@ Base,
    ("cert" :> "leaf.der") @@ ("intermediates" :> "junk") @@ Base,
    ("cert" :> "leaf.der") @@ ("intermediates" :> "nofile") @@ Base,
    ("output" :> "c.cbor") @@ Base,
    ("output" :> "k.jwk") @@ Base,
    ("output" :> "leaf.der") @@ ("cert" :> "leaf.der") @@ Base,
    ("output" :> "m.json") @@ Base,
    ("output" :> "out.cbor"),
    ("cert" :> ""),
    ("meta" :> "nofile") }

\* the command lines tried on every command when several are built
CmdLines ==
  { [f \in {} |-> ""],
    Base,
    ("file" :> "c.cbor") @@ ("key" :> "k.jwk"),
    ("file" :> "c.cbor") @@ ("meta" :> "m.json"),
    ("key" :> "k.jwk") @@ ("meta" :> "m.json"),
    ("output" :> "out.cbor") @@ Base,
    ("cert" :> "leaf.der") @@ ("intermediates" :> "chain.der") @@ Base,
    ("intermediates" :> "chain.der") @@ Base,
    ("file" :> "bad.cbor") @@ Base }

\* the arguments of a direct call of sign(), nil pointers included
DirectCalls ==
  { [ZeroArgs EXCEPT !.unsignedCorimFile = "c.cbor", !.keyFile = "k.jwk",
                     !.metaFile = "m.json"],
    [ZeroArgs EXCEPT !.unsignedCorimFile = "c.cbor", !.keyFile = "k.jwk",
                     !.metaFile = "m.json",
                     !.intermediatesFile = Lit("chain.der")],
    [ZeroArgs EXCEPT !.unsignedCorimFile = "c.cbor", !.keyFile = "k.jwk",
                     !.metaFile = "m.json", !.outputFile = Lit(""),
                     !.certFile = Lit("leaf.der"),
                     !.intermediatesFile = Lit("chain.der")],
    [ZeroArgs EXCEPT !.unsignedCorimFile = "bad.cbor", !.keyFile = "k.jwk",
                     !.metaFile = "m.json", !.outputFile = Lit("out.cbor"),
                     !.certFile = Lit(""),
                     !.intermediatesFile = Lit("chain.der")] }

\* cobra parses the command line into the command's own flag storage: a
\* flag that is given is set, a flag that is not keeps its value
ParseFlags(c, given) ==
  [flags EXCEPT ![c] =
     [f \in Flags |-> IF f \in DOMAIN given THEN given[f] ELSE @[f]]]

\* cmd.Execute(): parse the flags, then enter RunE
Execute(c, given) ==
  /\ pc = "idle"
  /\ nruns < MaxRuns
  /\ nruns' = nruns + 1
  /\ flags' = ParseFlags(c, given)
  /\ self' = c
  /\ pc' = "check"
  /\ fs0' = fs
  /\ UNCHANGED <<fs, ncmds, globals, a, l, ret, printed, calls>>

\* a caller inside the package calls sign() itself
CallSign(args) ==
  /\ pc = "idle"
  /\ nruns < MaxRuns
  /\ nruns' = nruns + 1
  /\ self' = 0
  /\ a' = args
  /\ pc' = "loadCorim"
  /\ fs0' = fs
  /\ UNCHANGED <<fs, ncmds, flags, globals, l, ret, printed, calls>>

(* ------------------------------------------------------------------ *)
(* RunE                                                                *)
(* ------------------------------------------------------------------ *)

\* checkCorimSignArgs without the key check
checkCorimSignArgsNoKey ==
  IF NilOrEmpty(corimSignCorimFile) THEN "no CoRIM supplied"
  ELSE IF NilOrEmpty(corimSignMetaFile) THEN "no CoRIM Meta supplied"
  ELSE "nil"

checkCorimSignArgs ==
  IF NilOrEmpty(corimSignCorimFile) THEN "no CoRIM supplied"
  ELSE IF NilOrEmpty(corimSignKeyFile) THEN "no key supplied"
  ELSE IF NilOrEmpty(corimSignMetaFile) THEN "no CoRIM Meta supplied"
  ELSE "nil"

\* a stage ran: the log of this execution
Log(stage, ok) == calls' = Append(calls, <<stage, ok>>)

\* return "", err
Fail(msg) ==
  /\ ret' = [file |-> "", err |-> msg]
  /\ pc' = "done"

\* lines 53-59: the argument check, then the call of sign() with the
\* values and pointers the package-level variables hold
RunECheck ==
  /\ pc = "check"
  /\ Log("checkCorimSignArgs", checkCorimSignArgs = "nil")
  /\ IF checkCorimSignArgs # "nil"
     THEN /\ Fail(checkCorimSignArgs)
          /\ a' = a
     ELSE /\ a' = [unsignedCorimFile |-> Deref(corimSignCorimFile),
                   keyFile |-> Deref(corimSignKeyFile),
                   metaFile |-> Deref(corimSignMetaFile),
                   outputFile |-> corimSignOutputFile,
                   certFile |-> corimSignCertFile,
                   intermediatesFile |-> corimSignIntermediateCerts]
          /\ pc' = "loadCorim"
          /\ ret' = ret
  /\ UNCHANGED <<fs, ncmds, flags, globals, self, l, printed, fs0, nruns>>

\* line 63: the confirmation
RunEPrint ==
  /\ pc = "print"
  /\ printed' = <<Deref(corimSignCorimFile), ret.file>>
  /\ pc' = "done"
  /\ UNCHANGED <<fs, ncmds, flags, globals, self, a, l, ret, calls, fs0, nruns>>

\* the execution is over; its frame is gone
Return ==
  /\ pc = "done"
  /\ pc' = "idle"
  /\ self' = 0
  /\ a' = ZeroArgs
  /\ l' = ZeroLocals
  /\ ret' = NoRet
  /\ printed' = <<>>
  /\ calls' = <<>>
  /\ fs0' = fs
  /\ UNCHANGED <<fs, ncmds, flags, globals, nruns>>

(* ------------------------------------------------------------------ *)
(* sign()                                                              *)
(* ------------------------------------------------------------------ *)

Goto(next) ==
  /\ pc' = next
  /\ ret' = ret

\* what a stage of sign() leaves alone besides fs and l
SignFrame == UNCHANGED <<ncmds, flags, globals, self, a, printed, fs0, nruns>>

\* line 110
LoadCorim ==
  /\ pc = "loadCorim"
  /\ LET r == ReadFile(a.unsignedCorimFile) IN
       /\ Log("load manifest", r.ok)
       /\ l' = [l EXCEPT !.unsignedCorimCBOR = r.data]
       /\ IF r.ok THEN Goto("decodeCorim")
          ELSE Fail("error loading unsigned CoRIM from " \o a.unsignedCorimFile)
  /\ UNCHANGED fs
  /\ SignFrame

\* line 114
DecodeCorim ==
  /\ pc = "decodeCorim"
  /\ LET r == FromCBOR(l.unsignedCorimCBOR) IN
       /\ Log("decode manifest", r.ok)
       /\ l' = [l EXCEPT !.c = r.val]
       /\ IF r.ok THEN Goto("validCorim")
          ELSE Fail("error decoding unsigned CoRIM from " \o a.unsignedCorimFile)
  /\ UNCHANGED fs
  /\ SignFrame

\* ValidCorim with the result of c.Valid() ignored
ValidCorimIgnored ==
  /\ pc = "validCorim"
  /\ Log("validate manifest", Valid(l.c))
  /\ Goto("loadMeta")
  /\ UNCHANGED <<fs, l>>
  /\ SignFrame

\* line 118
ValidCorim ==
  /\ pc = "validCorim"
  /\ Log("validate manifest", Valid(l.c))
  /\ IF Valid(l.c) THEN Goto("loadMeta")
     ELSE Fail("error validating CoRIM")
  /\ UNCHANGED <<fs, l>>
  /\ SignFrame

\* line 122
LoadMeta ==
  /\ pc = "loadMeta"
  /\ LET r == ReadFile(a.metaFile) IN
       /\ Log("load metadata", r.ok)
       /\ l' = [l EXCEPT !.metaJSON = r.data]
       /\ IF r.ok THEN Goto("decodeMeta")
          ELSE Fail("error loading CoRIM Meta from " \o a.metaFile)
  /\ UNCHANGED fs
  /\ SignFrame

\* line 126
DecodeMeta ==
  /\ pc = "decodeMeta"
  /\ LET r == FromJSON(l.metaJSON) IN
       /\ Log("decode metadata", r.ok)
       /\ l' = [l EXCEPT !.m = r.val]
       /\ IF r.ok THEN Goto("validMeta")
          ELSE Fail("error decoding CoRIM Meta from " \o a.metaFile)
  /\ UNCHANGED fs
  /\ SignFrame

\* line 130
ValidMeta ==
  /\ pc = "validMeta"
  /\ Log("validate metadata", Valid(l.m))
  /\ IF Valid(l.m) THEN Goto("loadKey")
     ELSE Fail("error validating CoRIM Meta")
  /\ UNCHANGED <<fs, l>>
  /\ SignFrame

\* line 134
LoadKey ==
  /\ pc = "loadKey"
  /\ LET r == ReadFile(a.keyFile) IN
       /\ Log("load key", r.ok)
       /\ l' = [l EXCEPT !.keyJWK = r.data]
       /\ IF r.ok THEN Goto("newSigner")
          ELSE Fail("error loading signing key from " \o a.keyFile)
  /\ UNCHANGED fs
  /\ SignFrame

\* line 138
NewSigner ==
  /\ pc = "newSigner"
  /\ LET r == NewSignerFromJWK(l.keyJWK) IN
       /\ Log("build signer", r.ok)
       /\ l' = [l EXCEPT !.signer = r.val]
       /\ IF r.ok THEN Goto("construct")
          ELSE Fail("error loading signing key from " \o a.keyFile)
  /\ UNCHANGED fs
  /\ SignFrame

\* lines 142-145
Construct ==
  /\ pc = "construct"
  /\ Log("construct assembler", TRUE)
  /\ l' = [l EXCEPT !.s = [ZeroSignedCorim EXCEPT !.UnsignedCorim = l.c,
                                                  !.Meta = l.m]]
  /\ Goto("certBranch")
  /\ UNCHANGED fs
  /\ SignFrame

\* line 148: certFile != nil && *certFile != ""
CertGiven == ~NilOrEmpty(a.certFile)

\* line 159: intermediatesFile != nil && *intermediatesFile != ""
IntermediatesGiven == ~NilOrEmpty(a.intermediatesFile)

\* LeafMissing with the guard dropped
LeafMissingNever == FALSE

\* line 161: the guard inside the intermediates branch
LeafMissing == NilOrEmpty(a.certFile)

\* line 148
CertBranch ==
  /\ pc = "certBranch"
  /\ Goto(IF CertGiven THEN "loadCert" ELSE "intermBranch")
  /\ UNCHANGED <<fs, l, calls>>
  /\ SignFrame

\* line 149
LoadCert ==
  /\ pc = "loadCert"
  /\ LET r == ReadFile(Deref(a.certFile)) IN
       /\ Log("load certificate", r.ok)
       /\ l' = [l EXCEPT !.certDER = r.data]
       /\ IF r.ok THEN Goto("addCert")
          ELSE Fail("error loading signing certificate from " \o Deref(a.certFile))
  /\ UNCHANGED fs
  /\ SignFrame

\* line 153
AddCert ==
  /\ pc = "addCert"
  /\ LET r == AddSigningCert(l.s, l.certDER) IN
       /\ Log("attach leaf", r.ok)
       /\ l' = [l EXCEPT !.s = r.val]
       /\ IF r.ok THEN Goto("intermBranch")
          ELSE Fail("error adding signing certificate")
  /\ UNCHANGED fs
  /\ SignFrame

\* lines 159-163
IntermBranch ==
  /\ pc = "intermBranch"
  /\ IF ~IntermediatesGiven
     THEN /\ Goto("sign")
          /\ calls' = calls
     ELSE /\ Log("require leaf", ~LeafMissing)
          /\ IF LeafMissing
             THEN Fail("cannot add intermediate certificates without a signing certificate")
             ELSE Goto("loadInterm")
  /\ UNCHANGED <<fs, l>>
  /\ SignFrame

\* line 165
LoadInterm ==
  /\ pc = "loadInterm"
  /\ LET r == ReadFile(Deref(a.intermediatesFile)) IN
       /\ Log("load intermediates", r.ok)
       /\ l' = [l EXCEPT !.intermediatesDER = r.data]
       /\ IF r.ok THEN Goto("addInterm")
          ELSE Fail("error loading intermediate certificates from "
                    \o Deref(a.intermediatesFile))
  /\ UNCHANGED fs
  /\ SignFrame

\* AddInterm handing the leaf's bytes to AddIntermediateCerts
AddIntermWrongBytes ==
  /\ pc = "addInterm"
  /\ LET r == AddIntermediateCerts(l.s, l.certDER) IN
       /\ Log("attach intermediates", r.ok)
       /\ l' = [l EXCEPT !.s = r.val]
       /\ IF r.ok THEN Goto("sign")
          ELSE Fail("error adding intermediate certificates")
  /\ UNCHANGED fs
  /\ SignFrame

\* line 169
AddInterm ==
  /\ pc = "addInterm"
  /\ LET r == AddIntermediateCerts(l.s, l.intermediatesDER) IN
       /\ Log("attach intermediates", r.ok)
       /\ l' = [l EXCEPT !.s = r.val]
       /\ IF r.ok THEN Goto("sign")
          ELSE Fail("error adding intermediate certificates")
  /\ UNCHANGED fs
  /\ SignFrame

\* Sign trying again after a failure
SignRetry ==
  /\ pc = "sign"
  /\ LET r == SignedCorimSign(l.s, l.signer) IN
       /\ Log("sign", r.ok)
       /\ l' = [l EXCEPT !.signedCorimCBOR = IF r.ok THEN r.val ELSE NoBytes]
       /\ IF r.ok THEN Goto("chooseOut")
          ELSE IF \A i \in DOMAIN calls : calls[i][1] # "sign" THEN Goto("sign")
          ELSE Fail("error signing CoRIM")
  /\ UNCHANGED fs
  /\ SignFrame

\* lines 174-177
Sign ==
  /\ pc = "sign"
  /\ LET r == SignedCorimSign(l.s, l.signer) IN
       /\ Log("sign", r.ok)
       /\ l' = [l EXCEPT !.signedCorimCBOR = IF r.ok THEN r.val ELSE NoBytes]
       /\ IF r.ok THEN Goto("chooseOut")
          ELSE Fail("error signing CoRIM")
  /\ UNCHANGED fs
  /\ SignFrame

\* OutputPath with the default lacking its prefix
OutputPathNoPrefix ==
  IF NilOrEmpty(a.outputFile) THEN a.unsignedCorimFile
  ELSE Deref(a.outputFile)

\* lines 179-183
OutputPath ==
  IF NilOrEmpty(a.outputFile) THEN "signed-" \o a.unsignedCorimFile
  ELSE Deref(a.outputFile)

ChooseOut ==
  /\ pc = "chooseOut"
  /\ l' = [l EXCEPT !.signedCorimFile = OutputPath]
  /\ Goto("write")
  /\ UNCHANGED <<fs, calls>>
  /\ SignFrame

\* Write with the error of WriteFile dropped
WriteErrDropped ==
  /\ pc = "write"
  /\ \E outcome \in WriteOutcomes :
       LET r == WriteFile(l.signedCorimFile, l.signedCorimCBOR, outcome) IN
         /\ Log("persist", r.ok)
         /\ fs' = r.fs
         /\ ret' = [file |-> l.signedCorimFile, err |-> "nil"]
         /\ pc' = IF self = 0 THEN "done" ELSE "print"
  /\ UNCHANGED l
  /\ SignFrame

\* Write saving to the manifest's path instead of signedCorimFile
WriteToManifest ==
  /\ pc = "write"
  /\ \E outcome \in WriteOutcomes :
       LET r == WriteFile(a.unsignedCorimFile, l.signedCorimCBOR, outcome) IN
         /\ Log("persist", r.ok)
         /\ fs' = r.fs
         /\ IF r.ok
            THEN /\ ret' = [file |-> l.signedCorimFile, err |-> "nil"]
                 /\ pc' = IF self = 0 THEN "done" ELSE "print"
            ELSE Fail("error saving signed CoRIM to file " \o l.signedCorimFile)
  /\ UNCHANGED l
  /\ SignFrame

\* lines 185-190, and RunE's lines 60-62
Write ==
  /\ pc = "write"
  /\ \E outcome \in WriteOutcomes :
       LET r == WriteFile(l.signedCorimFile, l.signedCorimCBOR, outcome) IN
         /\ Log("persist", r.ok)
         /\ fs' = r.fs
         /\ IF r.ok
            THEN /\ ret' = [file |-> l.signedCorimFile, err |-> "nil"]
                 /\ pc' = IF self = 0 THEN "done" ELSE "print"
            ELSE Fail("error saving signed CoRIM to file " \o l.signedCorimFile)
  /\ UNCHANGED l
  /\ SignFrame

\* several commands in one process (the package-level one and those a
\* caller builds), each executed with a command line of CmdLines
Next ==
  \/ NewCorimSignCmd
  \/ \E c \in 1..ncmds, given \in CmdLines : Execute(c, given)
  \/ RunECheck
  \/ LoadCorim
  \/ DecodeCorim
  \/ ValidCorim
  \/ LoadMeta
  \/ DecodeMeta
  \/ ValidMeta
  \/ LoadKey
  \/ NewSigner
  \/ Construct
  \/ CertBranch
  \/ LoadCert
  \/ AddCert
  \/ IntermBranch
  \/ LoadInterm
  \/ AddInterm
  \/ Sign
  \/ ChooseOut
  \/ Write
  \/ RunEPrint
  \/ Return

Spec == Init /\ [][Next]_vars

\* the cocli process: the package-level command alone, executed with any
\* command line of ArgVectors, and direct calls of sign()
NextOne ==
  \/ \E given \in ArgVectors : Execute(1, given)
  \/ \E args \in DirectCalls : CallSign(args)
  \/ RunECheck
  \/ LoadCorim
  \/ DecodeCorim
  \/ ValidCorim
  \/ LoadMeta
  \/ DecodeMeta
  \/ ValidMeta
  \/ LoadKey
  \/ NewSigner
  \/ Construct
  \/ CertBranch
  \/ LoadCert
  \/ AddCert
  \/ IntermBranch
  \/ LoadInterm
  \/ AddInterm
  \/ Sign
  \/ ChooseOut
  \/ Write
  \/ RunEPrint
  \/ Return

SpecOne == Init /\ [][NextOne]_vars

TypeOK ==
  /\ pc \in {"idle", "check", "loadCorim", "decodeCorim", "validCorim",
             "loadMeta", "decodeMeta", "validMeta", "loadKey", "newSigner",
             "construct", "certBranch", "loadCert", "addCert", "intermBranch",
             "loadInterm", "addInterm", "sign", "chooseOut", "write", "print",
             "done"}
  /\ ncmds \in 1..MaxCmds
  /\ Len(flags) = ncmds
  /\ nruns \in 0..MaxRuns
  /\ self \in 0..ncmds

(* ------------------------------------------------------------------ *)
(* Reading the log of an execution                                     *)
(* ------------------------------------------------------------------ *)

Called(stage) == \E i \in DOMAIN calls : calls[i][1] = stage

Ok(stage) == \E i \in DOMAIN calls : calls[i] = <<stage, TRUE>>

Count(stage) == Cardinality({i \in DOMAIN calls : calls[i][1] = stage})

\* sign() has been entered: its arguments are bound
InSign == pc \notin {"idle", "check"} /\ Called("load manifest")

\* the run is over
Returned == pc = "done"

(* ------------------------------------------------------------------ *)
(* C1                                                                  *)
(* ------------------------------------------------------------------ *)

\* C1: the Signer is invoked (or about to be) only in a run that decoded
\* the manifest and the metadata and saw both Valid() checks pass, and the
\* assembler it signs holds a valid manifest and valid metadata read from
\* valid files.
C1_SignOnlyAfterValidation ==
  (pc = "sign" \/ Called("sign")) =>
    /\ \E i, j, k, n \in DOMAIN calls :
         /\ i < j /\ j < k /\ k < n
         /\ calls[i] = <<"decode manifest", TRUE>>
         /\ calls[j] = <<"validate manifest", TRUE>>
         /\ calls[k] = <<"decode metadata", TRUE>>
         /\ calls[n] = <<"validate metadata", TRUE>>
         /\ \A q \in DOMAIN calls : calls[q][1] = "sign" => n < q
    /\ l.s.UnsignedCorim.valid
    /\ l.s.Meta.valid
    /\ fs0[a.unsignedCorimFile] = CorimBytes(TRUE)
    /\ fs0[a.metaFile] = MetaBytes(TRUE)

C1_Witness == calls # <<>> /\ calls[Len(calls)] = <<"sign", TRUE>>

(* ------------------------------------------------------------------ *)
(* C2                                                                  *)
(* ------------------------------------------------------------------ *)

\* C2: in a run of sign() given an intermediates path and no certificate
\* path, the intermediates file is not read, AddIntermediateCerts and the
\* Signer are not called, nothing is written, and the run returns an error.
C2_IntermediatesNeedCert ==
  (InSign /\ ~NilOrEmpty(a.intermediatesFile) /\ NilOrEmpty(a.certFile)) =>
    /\ ~Called("load intermediates")
    /\ ~Called("attach intermediates")
    /\ ~Called("sign")
    /\ ~Called("persist")
    /\ fs = fs0
    /\ pc \notin {"loadInterm", "addInterm", "sign", "chooseOut", "write", "print"}
    /\ Returned => ret.err # "nil" /\ ret.file = "" /\ printed = <<>>

C2_Witness ==
  /\ Returned
  /\ a.intermediatesFile = Lit("chain.der")
  /\ a.certFile = Nil
  /\ calls[Len(calls)] = <<"require leaf", FALSE>>
  /\ ret.err = "cannot add intermediate certificates without a signing certificate"

(* ------------------------------------------------------------------ *)
(* C3                                                                  *)
(* ------------------------------------------------------------------ *)

\* C3: when sign() has returned, either it succeeded and the output path
\* holds the complete envelope, or it returned an error and the filesystem
\* is what it was before the run.
C3_NoPartialSuccess ==
  (Returned /\ Called("load manifest")) =>
    \/ /\ ret.err = "nil"
       /\ \A i \in DOMAIN calls : calls[i][2]
       /\ l.signedCorimCBOR.kind = "cose"
       /\ fs = [fs0 EXCEPT ![ret.file] = l.signedCorimCBOR]
    \/ /\ ret.err # "nil"
       /\ fs = fs0

(* ------------------------------------------------------------------ *)
(* C4                                                                  *)
(* ------------------------------------------------------------------ *)

MandatoryMissing ==
  \/ NilOrEmpty(corimSignCorimFile)
  \/ NilOrEmpty(corimSignKeyFile)
  \/ NilOrEmpty(corimSignMetaFile)

\* C4: once RunE has made its argument check, a missing manifest, key or
\* metadata path means RunE has returned the check's error with sign() not
\* entered (nothing read, validated, signed, written or printed); with all
\* three present the check passed, whatever the certificate, intermediates
\* and output flags hold.
C4_MandatoryArgs ==
  (self # 0 /\ pc \notin {"idle", "check"}) =>
    /\ MandatoryMissing =>
         /\ pc = "done"
         /\ ret.file = ""
         /\ ret.err \in {"no CoRIM supplied", "no key supplied",
                         "no CoRIM Meta supplied"}
         /\ calls = << <<"checkCorimSignArgs", FALSE>> >>
         /\ a = ZeroArgs
         /\ l = ZeroLocals
         /\ fs = fs0
         /\ printed = <<>>
    /\ ~MandatoryMissing => calls[1] = <<"checkCorimSignArgs", TRUE>>

C4_Witness ==
  /\ self # 0
  /\ pc = "done"
  /\ ret.err = "no key supplied"
  /\ Deref(corimSignCorimFile) = "c.cbor"
  /\ Deref(corimSignMetaFile) = "m.json"

\* C4, second half: the check passes with no certificate, intermediates or
\* output flag
C4_OptionalAbsent ==
  /\ self # 0
  /\ Ok("checkCorimSignArgs")
  /\ Deref(corimSignCertFile) = ""
  /\ Deref(corimSignIntermediateCerts) = ""
  /\ Deref(corimSignOutputFile) = ""

(* ------------------------------------------------------------------ *)
(* C5                                                                  *)
(* ------------------------------------------------------------------ *)

\* the certificates of a DER file as it was when the run began
CertsAt(p) == IF fs0[Deref(p)].kind = "der" THEN fs0[Deref(p)].certs ELSE <<>>

\* C5: AddIntermediateCerts is called only after a successful
\* AddSigningCert of the same run, each at most once; the envelope's
\* certificate sequence is the leaf followed by the intermediates in the
\* order of the intermediates file; without a certificate path neither is
\* called and the envelope carries no certificate.
C5_CertificateOrder ==
  InSign =>
    /\ \A i \in DOMAIN calls :
         calls[i][1] = "attach intermediates" =>
           \E j \in 1..(i - 1) : calls[j] = <<"attach leaf", TRUE>>
    /\ Count("attach leaf") <= 1
    /\ Count("attach intermediates") <= 1
    /\ Ok("sign") =>
         l.signedCorimCBOR.x5chain =
           (IF NilOrEmpty(a.certFile) THEN <<>> ELSE CertsAt(a.certFile))
           \o (IF NilOrEmpty(a.intermediatesFile) THEN <<>>
               ELSE CertsAt(a.intermediatesFile))
    /\ NilOrEmpty(a.certFile) =>
         /\ ~Called("attach leaf")
         /\ ~Called("attach intermediates")
         /\ Ok("sign") => l.signedCorimCBOR.x5chain = <<>>

C5_Witness ==
  /\ Returned
  /\ ret.err = "nil"
  /\ Ok("attach leaf")
  /\ Ok("attach intermediates")
  /\ fs[ret.file].kind = "cose"
  /\ fs[ret.file].x5chain = <<"L", "I1", "I2">>

(* ------------------------------------------------------------------ *)
(* C6                                                                  *)
(* ------------------------------------------------------------------ *)

\* C6: a successful sign() returns "signed-" + the manifest path when the
\* output path is nil or empty and the output path itself otherwise, and
\* the returned path is the one file the run wrote, holding the envelope.
C6_OutputPath ==
  (pc \in {"print", "done"} /\ ret.err = "nil") =>
    /\ (a.outputFile = Nil \/ Deref(a.outputFile) = "") =>
         ret.file = "signed-" \o a.unsignedCorimFile
    /\ (a.outputFile # Nil /\ Deref(a.outputFile) # "") =>
         ret.file = Deref(a.outputFile)
    /\ fs[ret.file] = l.signedCorimCBOR
    /\ \A p \in Paths : p # ret.file => fs[p] = fs0[p]

C6_Witness ==
  /\ Returned
  /\ ret.err = "nil"
  /\ a.outputFile = Nil
  /\ ret.file = "signed-c.cbor"
  /\ fs["signed-c.cbor"].kind = "cose"

(* ------------------------------------------------------------------ *)
(* C7                                                                  *)
(* ------------------------------------------------------------------ *)

\* C7: the RunE of a command works on that command's own flag values: the
\* check it made is the check of its own flags, and the paths sign() got
\* are its own.
C7_OwnFlags ==
  (self # 0 /\ pc \notin {"idle", "check"}) =>
    /\ Ok("checkCorimSignArgs") <=>
         /\ flags[self]["file"] # ""
         /\ flags[self]["key"] # ""
         /\ flags[self]["meta"] # ""
    /\ Ok("checkCorimSignArgs") =>
         /\ a.unsignedCorimFile = flags[self]["file"]
         /\ a.keyFile = flags[self]["key"]
         /\ a.metaFile = flags[self]["meta"]
         /\ a.outputFile = FlagPtr(self, "output")
         /\ a.certFile = FlagPtr(self, "cert")
         /\ a.intermediatesFile = FlagPtr(self, "intermediates")

(* ------------------------------------------------------------------ *)
(* C8                                                                  *)
(* ------------------------------------------------------------------ *)

\* the message each stage reports when it fails
StageError(stage) ==
  CASE stage = "checkCorimSignArgs" ->
         IF NilOrEmpty(corimSignCorimFile) THEN "no CoRIM supplied"
         ELSE IF NilOrEmpty(corimSignKeyFile) THEN "no key supplied"
         ELSE "no CoRIM Meta supplied"
    [] stage = "load manifest" ->
         "error loading unsigned CoRIM from " \o a.unsignedCorimFile
    [] stage = "decode manifest" ->
         "error decoding unsigned CoRIM from " \o a.unsignedCorimFile
    [] stage = "validate manifest" -> "error validating CoRIM"
    [] stage = "load metadata" -> "error loading CoRIM Meta from " \o a.metaFile
    [] stage = "decode metadata" -> "error decoding CoRIM Meta from " \o a.metaFile
    [] stage = "validate metadata" -> "error validating CoRIM Meta"
    [] stage = "load key" -> "error loading signing key from " \o a.keyFile
    [] stage = "build signer" -> "error loading signing key from " \o a.keyFile
    [] stage = "load certificate" ->
         "error loading signing certificate from " \o Deref(a.certFile)
    [] stage = "attach leaf" -> "error adding signing certificate"
    [] stage = "require leaf" ->
         "cannot add intermediate certificates without a signing certificate"
    [] stage = "load intermediates" ->
         "error loading intermediate certificates from "
         \o Deref(a.intermediatesFile)
    [] stage = "attach intermediates" -> "error adding intermediate certificates"
    [] stage = "sign" -> "error signing CoRIM"
    [] stage = "persist" -> "error saving signed CoRIM to file " \o l.signedCorimFile
    [] OTHER -> "?"

Failures == {i \in DOMAIN calls : ~calls[i][2]}

FirstFailure == CHOOSE i \in Failures : \A j \in Failures : i <= j

\* C8: RunE returns nil exactly when the argument check passed and every
\* stage of sign() up to and including the write succeeded, and it then has
\* printed the confirmation naming the manifest and the output path;
\* otherwise it returns the error of the first stage that failed and has
\* printed nothing.
C8_ExitStatus ==
  (self # 0 /\ Returned) =>
    /\ ret.err = "nil" <=>
         /\ calls[1] = <<"checkCorimSignArgs", TRUE>>
         /\ calls[Len(calls)] = <<"persist", TRUE>>
         /\ Failures = {}
    /\ ret.err = "nil" =>
         /\ printed = <<a.unsignedCorimFile, ret.file>>
         /\ ret.file = l.signedCorimFile
         /\ fs[ret.file] = l.signedCorimCBOR
    /\ ret.err # "nil" =>
         /\ printed = <<>>
         /\ ret.file = ""
         /\ Failures # {}
         /\ ret.err = StageError(calls[FirstFailure][1])

C8_Witness ==
  /\ self # 0
  /\ Returned
  /\ ret.err = "nil"
  /\ printed = <<"c.cbor", "out.cbor">>

\* C8, the failing side: RunE has returned the error of a failed write
C8_FailedWrite ==
  /\ self # 0
  /\ Returned
  /\ calls[Len(calls)] = <<"persist", FALSE>>

(* ------------------------------------------------------------------ *)
(* C9                                                                  *)
(* ------------------------------------------------------------------ *)

StageOrder ==
  <<"load manifest", "decode manifest", "validate manifest",
    "load metadata", "decode metadata", "validate metadata",
    "load key", "build signer", "construct assembler",
    "load certificate", "attach leaf",
    "require leaf", "load intermediates", "attach intermediates",
    "sign", "persist">>

Rank(stage) ==
  IF \E k \in DOMAIN StageOrder : StageOrder[k] = stage
  THEN CHOOSE k \in DOMAIN StageOrder : StageOrder[k] = stage
  ELSE 0

\* the stages every run passes on its way to a later one
Mandatory ==
  {"load manifest", "decode manifest", "validate manifest",
   "load metadata", "decode metadata", "validate metadata",
   "load key", "build signer", "construct assembler", "sign"}

\* the log of sign() alone
signCalls == SelectSeq(calls, LAMBDA e : e[1] # "checkCorimSignArgs")

\* C9: the stages of sign() run in the fixed order, each at most once; a
\* stage runs only after every mandatory stage before it; a failed stage
\* is the last one of the run, and the run returns that stage's error.
C9_StageOrder ==
  /\ \A i, j \in DOMAIN signCalls :
       i < j => /\ 0 < Rank(signCalls[i][1])
                /\ Rank(signCalls[i][1]) < Rank(signCalls[j][1])
  /\ \A i \in DOMAIN signCalls :
       \A m \in Mandatory :
         Rank(m) < Rank(signCalls[i][1]) =>
           \E j \in 1..(i - 1) : signCalls[j] = <<m, TRUE>>
  /\ \A i \in DOMAIN signCalls :
       /\ signCalls[i][1] = "attach leaf" =>
            i > 1 /\ signCalls[i - 1] = <<"load certificate", TRUE>>
       /\ signCalls[i][1] = "attach intermediates" =>
            i > 1 /\ signCalls[i - 1] = <<"load intermediates", TRUE>>
  /\ \A i \in DOMAIN signCalls : ~signCalls[i][2] => i = Len(signCalls)
  /\ \A i \in DOMAIN signCalls :
       ~signCalls[i][2] =>
         /\ pc = "done"
         /\ ret.err = StageError(signCalls[i][1])
  /\ (Returned /\ signCalls # <<>> /\ ret.err # "nil") =>
       ~signCalls[Len(signCalls)][2]

C9_Witness ==
  /\ Returned
  /\ ret.err = "nil"
  /\ Len(signCalls) = 16

\* C9, a failing run: the metadata failed validation after six stages
C9_FailedMidway ==
  /\ Returned
  /\ Len(signCalls) = 6
  /\ signCalls[6] = <<"validate metadata", FALSE>>

(* ------------------------------------------------------------------ *)
(* C10                                                                 *)
(* ------------------------------------------------------------------ *)

\* the files a run of sign() takes as inputs
InputPaths ==
  {a.unsignedCorimFile, a.metaFile, a.keyFile}
  \cup (IF NilOrEmpty(a.certFile) THEN {} ELSE {Deref(a.certFile)})

\* C10 as stated: after a run of sign(), whatever the paths, the manifest,
\* metadata, key and certificate files hold the bytes they held before.
C10_InputsUntouched ==
  (Returned /\ Called("load manifest")) =>
    \A p \in InputPaths : fs[p] = fs0[p]

\* C10 as amended: a run of sign() changes at most the file at the path it
\* writes to, and only in its persist stage; every input file at another
\* path holds the bytes it held before the run.
C10_OnlyWrittenPathChanges ==
  InSign =>
    /\ \A p \in Paths :
         fs[p] # fs0[p] => Called("persist") /\ p = l.signedCorimFile
    /\ \A p \in InputPaths :
         (p # l.signedCorimFile \/ ~Called("persist")) => fs[p] = fs0[p]

C10_Witness ==
  /\ Returned
  /\ ret.err = "nil"
  /\ fs # fs0
  /\ a.certFile # Nil
  /\ Deref(a.certFile) = "leaf.der"
  /\ l.signedCorimFile \notin InputPaths
  /\ \A p \in InputPaths : fs[p] = fs0[p] /\ fs[p] # NoFile

====
